---- MODULE Spec2Model ----
(***************************************************************************)
(* Model of github-security-scanner.py: the search / admission / dedup /   *)
(* clone / detect pipeline, the persisted scan cache and the interrupt and *)
(* fatal-error exits, over several invocations of the script.              *)
(*                                                                         *)
(* Python values that may be None are tagged records (PyNone, PyInt,       *)
(* PyBool); Python strings that the code takes apart (commit dates) are    *)
(* sequences of one-character strings; detector output lines are sequences *)
(* of tokens.                                                              *)
(***************************************************************************)
EXTENDS Integers, Sequences, FiniteSets, TLC

\* ---------------------------------------------------------------- bounds
MaxRuns == 2        \* invocations of the script that are followed
MaxHits == 2        \* search hits the remote returns in one invocation
per_page == 2       \* page size of the search loops (100 in the source, scaled)
MaxDateLen == 4
MaxLines == 5
MaxItems == 5     \* longest commit-date string of the admission inputs

\* ------------------------------------------------------- program constants
DefaultMaxSize == 500    \* --max-size default (MB)
DefaultMinYear == 2024   \* --min-year default

\* ------------------------------------------------------------ input domains
Urls == {"r1", "r2"}                       \* repository html_url / full_name
Issues == {"i1", "i2"}                     \* issue html_url
SEARCH_KEYWORDS == <<"password", "api_key">>

\* ------------------------------------------------------------ Python values
PyNone == [t |-> "none"]
PyInt(n) == [t |-> "int", i |-> n]
PyBool(b) == [t |-> "bool", b |-> b]

\* bool(v) as `if v:` evaluates it
Truthy(v) ==
    CASE v.t = "none" -> FALSE
      [] v.t = "bool" -> v.b
      [] v.t = "int"  -> v.i # 0

SeqsUpTo(S, n) == UNION {[1..k -> S] : k \in 0..n}

Min2(a, b) == IF a < b THEN a ELSE b

\* ------------------------------------------------------------- commit dates
Digits == {"0", "1", "2", "3", "4", "5", "6", "7", "8", "9"}
Whitespace == {" "}

DigitVal(c) ==
    CASE c = "0" -> 0 [] c = "1" -> 1 [] c = "2" -> 2 [] c = "3" -> 3
      [] c = "4" -> 4 [] c = "5" -> 5 [] c = "6" -> 6 [] c = "7" -> 7
      [] c = "8" -> 8 [] c = "9" -> 9

DateUnknown == <<"U", "n", "k", "n", "o", "w", "n">>
Date2023 == <<"2", "0", "2", "3", "-", "0", "1">>
Date2025 == <<"2", "0", "2", "5", "-", "0", "1">>

\* date_string.split('-')[0]
FirstSegment(s) ==
    LET dashes == {i \in 1..Len(s) : s[i] = "-"}
    IN IF dashes = {} THEN s
       ELSE SubSeq(s, 1, (CHOOSE i \in dashes : \A j \in dashes : i <= j) - 1)

\* str.strip() on a sequence of characters
StripWs(s) ==
    LET keep == {i \in 1..Len(s) : s[i] \notin Whitespace}
    IN IF keep = {} THEN <<>>
       ELSE SubSeq(s, CHOOSE i \in keep : \A j \in keep : i <= j,
                      CHOOSE i \in keep : \A j \in keep : i >= j)

RECURSIVE DecimalValue(_)
DecimalValue(s) ==
    IF s = <<>> THEN 0
    ELSE 10 * DecimalValue(SubSeq(s, 1, Len(s) - 1)) + DigitVal(s[Len(s)])

\* int(text): PyNone stands for the ValueError
IntOf(text) ==
    LET body == StripWs(text)
    IN IF body # <<>> /\ \A i \in 1..Len(body) : body[i] \in Digits
       THEN PyInt(DecimalValue(body))
       ELSE PyNone

\* get_commit_year: the year, or None when int() raises
get_commit_year(date_string) == IntOf(FirstSegment(date_string))

\* --------------------------------------------------------------- scan cache
NoFile == [kind |-> "none"]
Corrupt == [kind |-> "corrupt"]
JsonFile(repos, last_scan, scan_count) ==
    [kind |-> "json", repos |-> repos, last_scan |-> last_scan,
     scan_count |-> scan_count]

\* the empty cache with the run counter started at 1
EmptyCacheCountOne == [repos |-> {}, last_scan |-> PyNone, scan_count |-> 1]

EmptyCache == [repos |-> {}, last_scan |-> PyNone, scan_count |-> 0]

\* load_cache: the file's content, or the empty cache when the file is
\* missing or json.load raises
load_cache(file) ==
    IF file.kind = "json"
    THEN [repos |-> file.repos, last_scan |-> file.last_scan,
          scan_count |-> file.scan_count]
    ELSE EmptyCache

\* the run counter is written back as it was read
save_cache_keeps_count(repos_set, previous_cache, file, writable, now) ==
    IF writable
    THEN JsonFile(repos_set, PyInt(now), previous_cache.scan_count)
    ELSE file

\* save_cache: the content of CACHE_FILE afterwards; when open() raises the
\* exception is caught and the file stays as it was
save_cache(repos_set, previous_cache, file, writable, now) ==
    IF writable
    THEN JsonFile(repos_set, PyInt(now), previous_cache.scan_count + 1)
    ELSE file

\* ------------------------------------------------------------------ search
\* The remote's answer to one keyword: the items it holds and the page at
\* which it answers with a non-200 status (0: never).
\* the page of `per_page` items the remote answers request number `page` with
PageItems(items, page) ==
    LET lo == (page - 1) * per_page + 1
        hi == Min2(page * per_page, Len(items))
    IN IF lo > hi THEN <<>> ELSE SubSeq(items, lo, hi)

SearchStart == [results |-> <<>>, requests |-> <<>>]

\* the results gathered so far are dropped when a page fails
RECURSIVE SearchLoopDropsPartial(_, _, _, _)
SearchLoopDropsPartial(items, failPage, page, st) ==
    LET asked == Append(st.requests, page)
        got == PageItems(items, page)
    IN IF page = failPage THEN [results |-> <<>>, requests |-> asked]
       ELSE IF got = <<>> THEN [results |-> st.results, requests |-> asked]
       ELSE IF Len(got) < per_page
            THEN [results |-> st.results \o got, requests |-> asked]
       ELSE SearchLoopDropsPartial(items, failPage, page + 1,
                [results |-> st.results \o got, requests |-> asked])

\* `while True:` one request per turn; st.requests logs the page numbers asked
RECURSIVE SearchLoop(_, _, _, _)
SearchLoop(items, failPage, page, st) ==
    LET asked == Append(st.requests, page)
        got == PageItems(items, page)
    IN IF page = failPage THEN [results |-> st.results, requests |-> asked]
       ELSE IF got = <<>> THEN [results |-> st.results, requests |-> asked]
       ELSE IF Len(got) < per_page
            THEN [results |-> st.results \o got, requests |-> asked]
       ELSE SearchLoop(items, failPage, page + 1,
                [results |-> st.results \o got, requests |-> asked])

search_github_code_all_pages(remote) ==
    SearchLoop(remote.items, remote.failPage, 1, SearchStart).results

search_github_issues_all_pages(remote) ==
    SearchLoop(remote.items, remote.failPage, 1, SearchStart).results

\* ---------------------------------------------------------------- metadata
\* get_repo_size: (size, private) of the response, (None, None) on non-200
get_repo_size(resp) ==
    IF resp.status # 200 THEN <<PyNone, PyNone>>
    ELSE <<resp.size, resp.private>>

\* get_last_commit: (author, date), ("Unknown", "Unknown") on non-200 or an
\* empty history; the login replaces a "GitHub", empty or "Unknown" author
get_last_commit(resp) ==
    IF resp.status # 200 \/ resp.empty THEN <<"Unknown", DateUnknown>>
    ELSE IF resp.name \in {"GitHub", "", "Unknown"} /\ resp.login # ""
         THEN <<resp.login, resp.date>>
         ELSE <<resp.name, resp.date>>

\* --------------------------------------------------------------- admission
MAX_SIZE_KB(a) == a.max_size * 1024
MIN_YEAR(a) == a.min_year

\* the private check left out
SkipPrivateNever(is_private) == FALSE

\* `if is_private is not False:`: an unknown visibility counts as private
SkipPrivateUnlessFalse(is_private) == is_private # PyBool(FALSE)

\* `if is_private:`
SkipPrivate(is_private) == Truthy(is_private)

\* `if repo_size_kb and repo_size_kb > MAX_SIZE_KB:`
SkipTooLarge(repo_size_kb, a) ==
    Truthy(repo_size_kb) /\ repo_size_kb.i > MAX_SIZE_KB(a)

\* `if not commit_year or commit_year < MIN_YEAR:`: no year counts as old
SkipOldOrUnknown(commit_year, a) ==
    ~Truthy(commit_year) \/ commit_year.i < MIN_YEAR(a)

\* `if commit_year and commit_year < MIN_YEAR:`
SkipOld(commit_year, a) ==
    Truthy(commit_year) /\ commit_year.i < MIN_YEAR(a)

\* The cascade of the three checks of the per-candidate loop
AdmissionVerdict(is_private, repo_size_kb, last_commit_date, a) ==
    IF SkipPrivate(is_private) THEN "RejectPrivate"
    ELSE IF SkipTooLarge(repo_size_kb, a) THEN "RejectTooLarge"
    ELSE IF SkipOld(get_commit_year(last_commit_date), a) THEN "RejectStale"
    ELSE "Admit"

\* every candidate is tagged NEW
StatusOfAlwaysNew(is_new_repo) == "NEW"

StatusOf(is_new_repo) == IF is_new_repo THEN "NEW" ELSE "Existing"

\* the entry built without the commit date
PublicEntryNoDate(url, author, date, keyword, is_new_repo) ==
    [Link |-> url, Author |-> author, Date |-> <<>>, Keyword |-> keyword,
     Status |-> StatusOf(is_new_repo)]

PublicEntry(url, author, date, keyword, is_new_repo) ==
    [Link |-> url, Author |-> author, Date |-> date, Keyword |-> keyword,
     Status |-> StatusOf(is_new_repo)]

\* ---------------------------------------------------------- finding parser
\* A detector output line is a sequence of tokens; a label token stands for
\* the literal text the regular expression looks for.
NumTokens == {"10", "7"}

LDet == <<"Detector Type:", "AWS">>
LPath == <<"Path:", "a.py">>
LLine == <<"Line Number:", "10">>
LRaw1 == <<"Raw result:", "KEY1">>
LRaw2 == <<"Raw result:", "KEY2">>

OutEmpty == <<>>
OutBlock == <<LDet, LPath, LLine, LRaw1>>
OutRawOnly == <<LRaw2>>

\* re.search(label + r"\s*(.*)", line): the rest of the line after the
\* first occurrence of the label, [m |-> FALSE] when the label is absent
SearchRest(label, line) ==
    LET at == {i \in 1..Len(line) : line[i] = label}
    IN IF at = {} THEN [m |-> FALSE]
       ELSE [m |-> TRUE,
             g |-> SubSeq(line, (CHOOSE i \in at : \A j \in at : i <= j) + 1,
                          Len(line))]

\* re.search(r"Line Number:\s*(\d+)", line): the label followed by digits
SearchDigits(label, line) ==
    LET at == {i \in 1..Len(line) - 1 :
                  line[i] = label /\ line[i + 1] \in NumTokens}
    IN IF at = {} THEN [m |-> FALSE]
       ELSE [m |-> TRUE,
             g |-> <<line[(CHOOSE i \in at : \A j \in at : i <= j) + 1]>>]

\* the fields still hold what an earlier output left in them
ParserStartStale ==
    [current_detector |-> <<"AWS">>, current_file |-> <<"a.py">>,
     current_line |-> <<"10">>, found |-> <<>>]

ParserStart == [current_detector |-> <<>>, current_file |-> <<>>,
                current_line |-> <<>>, found |-> <<>>]

\* the fields are forgotten once a finding has been emitted
ParseLineReset(p, line, ctx) ==
    LET dt_match == SearchRest("Detector Type:", line)
        rr_match == SearchRest("Raw result:", line)
        file_match == SearchRest("Path:", line)
        line_match == SearchDigits("Line Number:", line)
        det == IF dt_match.m THEN dt_match.g ELSE p.current_detector
        fil == IF file_match.m THEN file_match.g ELSE p.current_file
        lin == IF line_match.m THEN line_match.g ELSE p.current_line
        finding == [Keyword |-> ctx.keyword, Link |-> ctx.repo_url,
                    Commiter |-> ctx.commiter, Date |-> ctx.last_commit_date,
                    Detector |-> det, File |-> fil, Line |-> lin,
                    Raw |-> rr_match.g, IssueURL |-> ""]
    IN IF rr_match.m /\ rr_match.g # <<>>
       THEN [current_detector |-> <<>>, current_file |-> <<>>,
             current_line |-> <<>>, found |-> Append(p.found, finding)]
       ELSE [current_detector |-> det, current_file |-> fil,
             current_line |-> lin, found |-> p.found]

\* a finding is emitted for every raw-result line, empty or not
ParseLineUnguarded(p, line, ctx) ==
    LET dt_match == SearchRest("Detector Type:", line)
        rr_match == SearchRest("Raw result:", line)
        file_match == SearchRest("Path:", line)
        line_match == SearchDigits("Line Number:", line)
        det == IF dt_match.m THEN dt_match.g ELSE p.current_detector
        fil == IF file_match.m THEN file_match.g ELSE p.current_file
        lin == IF line_match.m THEN line_match.g ELSE p.current_line
        finding == [Keyword |-> ctx.keyword, Link |-> ctx.repo_url,
                    Commiter |-> ctx.commiter, Date |-> ctx.last_commit_date,
                    Detector |-> det, File |-> fil, Line |-> lin,
                    Raw |-> rr_match.g, IssueURL |-> ""]
    IN [current_detector |-> det, current_file |-> fil, current_line |-> lin,
        found |-> IF rr_match.m THEN Append(p.found, finding) ELSE p.found]

\* One turn of `for line in output:`
ParseLine(p, line, ctx) ==
    LET dt_match == SearchRest("Detector Type:", line)
        rr_match == SearchRest("Raw result:", line)
        file_match == SearchRest("Path:", line)
        line_match == SearchDigits("Line Number:", line)
        det == IF dt_match.m THEN dt_match.g ELSE p.current_detector
        fil == IF file_match.m THEN file_match.g ELSE p.current_file
        lin == IF line_match.m THEN line_match.g ELSE p.current_line
        finding == [Keyword |-> ctx.keyword, Link |-> ctx.repo_url,
                    Commiter |-> ctx.commiter, Date |-> ctx.last_commit_date,
                    Detector |-> det, File |-> fil, Line |-> lin,
                    Raw |-> rr_match.g, IssueURL |-> ""]
    IN [current_detector |-> det, current_file |-> fil, current_line |-> lin,
        found |-> IF rr_match.m /\ rr_match.g # <<>>
                  THEN Append(p.found, finding) ELSE p.found]

RECURSIVE ParseFrom(_, _, _)
ParseFrom(p, output, ctx) ==
    IF output = <<>> THEN p
    ELSE ParseFrom(ParseLine(p, Head(output), ctx), Tail(output), ctx)

\* The findings of one repository's detector output, in order
ParseOutput(output, ctx) == ParseFrom(ParserStart, output, ctx).found

IssueRecord(keyword, issue) ==
    [Keyword |-> keyword, Link |-> "", Commiter |-> "", Date |-> <<>>,
     Detector |-> <<>>, File |-> <<>>, Line |-> <<>>, Raw |-> <<>>,
     IssueURL |-> issue]

\* ------------------------------------------------------------------- state
VARIABLES
    cacheFile,            \* content of CACHE_FILE on disk
    workdirs,             \* repositories with a working copy under TEMP_DIR
    runNo,                \* invocations of the script so far (the clock)
    args,                 \* parsed command line of this invocation
    pc,                   \* position of the main pipeline
    exit_status,          \* PyNone while running
    previous_cache,
    scanned_repos_cache,
    total_repos_count, matched_repos_count, skipped_repos_count,
    old_repos_count, new_repos_count,
    results_list, public_list, new_repos_list,
    kw,                   \* index of `keyword` in SEARCH_KEYWORDS
    code_results,         \* code_results / issues_results of this keyword
    idx,                  \* index of `item` / `issue` in code_results
    cand,                 \* locals of the candidate being processed (the
                          \* size and visibility are dropped once the size
                          \* check has read them for the last time)
    calls,                \* per invocation: calls made per collaborator and repository
    outcome,              \* per invocation: how each processed hit ended
    privateSeen,          \* per invocation: repositories whose metadata said private
    everDetected,         \* repositories handed to the detector in the
                          \* invocations that went on to write CACHE_FILE
    saved,                \* save_cache in this invocation: "no", "failed", "written"
    writes,               \* invocations so far in which save_cache wrote CACHE_FILE
    fin, fout             \* input and result of the function applied by
                          \* a function specification

env == <<cacheFile, workdirs, runNo, args>>
counters == <<total_repos_count, matched_repos_count, skipped_repos_count,
              old_repos_count, new_repos_count>>
lists == <<results_list, public_list, new_repos_list>>
loop == <<kw, code_results, idx>>
ghost == <<calls, outcome, privateSeen, everDetected, saved, writes>>
pure == <<fin, fout>>
vars == <<env, pc, exit_status, previous_cache, scanned_repos_cache, counters,
          lists, loop, cand, ghost, pure>>

Ops == {"meta", "commit", "clone", "detect", "rmtree"}
NoCalls == [op \in Ops |-> [u \in Urls |-> 0]]
Called(op, u) == [calls EXCEPT ![op][u] = @ + 1]

NoCand == [repo_url |-> "", is_new_repo |-> FALSE, meta_status |-> 0,
           repo_size_kb |-> PyNone, is_private |-> PyNone,
           commiter |-> "", last_commit_date |-> <<>>, detect |-> "",
           result |-> [returncode |-> 0, stdout |-> <<>>]]

ArgsMain == [issues : BOOLEAN, max_size : {DefaultMaxSize},
             min_year : {DefaultMinYear}]

Running == {"start", "keyword", "issue", "item", "meta", "commit", "clone",
            "detect", "cleanup", "save", "cache"}
Exited == {"done", "interrupted", "fatal"}

keyword == SEARCH_KEYWORDS[kw]

\* hits the remote has already returned in this invocation
HitsSoFar == IF args.issues THEN matched_repos_count ELSE total_repos_count

Remotes(S) ==
    {[items |-> it, failPage |-> f] :
        it \in SeqsUpTo(S, MaxHits - HitsSoFar),
        f \in 0..((MaxHits \div per_page) + 1)}

MainSizes == {PyNone, PyInt(10), PyInt(DefaultMaxSize * 1024), PyInt(600000)}

MetaResponses ==
    {[status |-> 404]} \cup
    {[status |-> 200, size |-> s, private |-> p] :
        s \in MainSizes, p \in {PyNone, PyBool(FALSE), PyBool(TRUE)}}

CommitResponses ==
    {[status |-> 404, empty |-> FALSE], [status |-> 200, empty |-> TRUE],
     [status |-> 200, empty |-> FALSE, name |-> "GitHub", login |-> "bob",
      date |-> Date2023],
     [status |-> 200, empty |-> FALSE, name |-> "alice", login |-> "",
      date |-> Date2025]}

DetectorOutputs == {OutEmpty, OutBlock, OutRawOnly}

\* the CompletedProcess of the detector: exit code and captured stdout lines
DetectorResults == [returncode : {0, 1}, stdout : DetectorOutputs]

\* The inputs of a step are drawn from the sets above, or, when the
\* specification fixes one script of inputs for all its invocations (fin),
\* read from the script: the search results per keyword and, per
\* repository, the metadata, the last commit and how git and the detector end.
Scripted == fin.kind = "script"

CodeRemotes == IF Scripted THEN {fin.code[kw]} ELSE Remotes(Urls)
IssueRemotes == IF Scripted THEN {fin.issues[kw]} ELSE Remotes(Issues)
MetaInputs(u) == IF Scripted THEN {fin.repo[u].meta} ELSE MetaResponses
CommitInputs(u) == IF Scripted THEN {fin.repo[u].commit} ELSE CommitResponses
CloneEnds(u) == IF Scripted THEN {fin.repo[u].clone} ELSE {"ok", "failed"}
ArgsInputs == IF Scripted THEN {args} ELSE ArgsMain
DetectEnds(u) ==
    IF Scripted THEN {fin.repo[u].detect}
    ELSE {[raised |-> FALSE, result |-> r] : r \in DetectorResults}
         \cup {[raised |-> TRUE, result |-> NoCand.result]}

RunLocalsInit ==
    /\ pc = "start"
    /\ exit_status = PyNone
    /\ previous_cache = EmptyCache
    /\ scanned_repos_cache = {}
    /\ total_repos_count = 0 /\ matched_repos_count = 0
    /\ skipped_repos_count = 0 /\ old_repos_count = 0 /\ new_repos_count = 0
    /\ results_list = <<>> /\ public_list = <<>> /\ new_repos_list = <<>>
    /\ kw = 1 /\ code_results = <<>> /\ idx = 1
    /\ cand = NoCand
    /\ calls = NoCalls /\ outcome = <<>> /\ privateSeen = {} /\ saved = "no"

\* The script has parsed its arguments and emptied TEMP_DIR; CACHE_FILE is
\* missing or unreadable.
Init ==
    /\ cacheFile \in {NoFile, Corrupt}
    /\ workdirs = {}
    /\ runNo = 1
    /\ args \in ArgsMain
    /\ RunLocalsInit
    /\ everDetected = {}
    /\ writes = 0
    /\ fin = [kind |-> "none"] /\ fout = [kind |-> "none"]

\* ------------------------------------------------------------ run-level steps
\* `except Exception`: exit(1)
Fatal ==
    /\ pc' = "fatal"
    /\ exit_status' = PyInt(1)

\* The next candidate of `for item in code_results` (the `continue`s and the
\* end of the loop body)
Ended(url, state, meta_status, author, date) ==
    [url |-> url, state |-> state, meta_status |-> meta_status,
     author |-> author, date |-> date]

NextItem(state, meta_status, author, date) ==
    /\ idx' = idx + 1
    /\ cand' = NoCand
    /\ outcome' = Append(outcome,
                     Ended(cand.repo_url, state, meta_status, author, date))
    /\ pc' = "item"

\* the counter is left as it was
MatchedLeftAlone(count, found) == count

\* `matched_repos_count += 1` after every append to results_list
MatchedAfter(count, found) == count + Len(found)

\* previous_cache = load_cache() and the counters and lists set up after it
LoadCache ==
    /\ pc = "start"
    /\ previous_cache' = load_cache(cacheFile)
    /\ pc' = "keyword"
    /\ UNCHANGED <<env, exit_status, scanned_repos_cache, counters, lists,
                   loop, cand, ghost, pure>>

\* `for keyword in SEARCH_KEYWORDS`, issue mode: the search of the keyword
SearchIssues ==
    /\ pc = "keyword" /\ kw <= Len(SEARCH_KEYWORDS) /\ args.issues
    /\ \/ \E remote \in IssueRemotes :
            /\ code_results' = search_github_issues_all_pages(remote)
            /\ idx' = 1
            /\ pc' = "issue"
            /\ UNCHANGED exit_status
       \/ /\ Fatal                       \* requests.get raises
          /\ UNCHANGED <<code_results, idx>>
    /\ UNCHANGED <<env, previous_cache, scanned_repos_cache, counters, lists,
                   kw, cand, ghost, pure>>

\* `for issue in issues_results`: one issue recorded
RecordIssue ==
    /\ pc = "issue" /\ idx <= Len(code_results)
    /\ results_list' = Append(results_list, IssueRecord(keyword, code_results[idx]))
    /\ matched_repos_count' =
           MatchedAfter(matched_repos_count,
                        <<IssueRecord(keyword, code_results[idx])>>)
    /\ idx' = idx + 1
    /\ UNCHANGED <<env, pc, exit_status, previous_cache, scanned_repos_cache,
                   total_repos_count, skipped_repos_count, old_repos_count,
                   new_repos_count, public_list, new_repos_list, kw,
                   code_results, cand, ghost, pure>>

\* The end of the inner loop: on to the next keyword
EndOfResults ==
    /\ pc \in {"issue", "item"} /\ idx > Len(code_results)
    /\ kw' = kw + 1
    /\ pc' = "keyword"
    /\ UNCHANGED <<env, exit_status, previous_cache, scanned_repos_cache,
                   counters, lists, code_results, idx, cand, ghost, pure>>

\* `for keyword in SEARCH_KEYWORDS`, code mode: the search of the keyword
SearchCode ==
    /\ pc = "keyword" /\ kw <= Len(SEARCH_KEYWORDS) /\ ~args.issues
    /\ \/ \E remote \in CodeRemotes :
            /\ code_results' = search_github_code_all_pages(remote)
            /\ idx' = 1
            /\ pc' = "item"
            /\ UNCHANGED exit_status
       \/ /\ Fatal                       \* requests.get raises
          /\ UNCHANGED <<code_results, idx>>
    /\ UNCHANGED <<env, previous_cache, scanned_repos_cache, counters, lists,
                   kw, cand, ghost, pure>>

\* The keywords are exhausted: on to saving
EndOfKeywords ==
    /\ pc = "keyword" /\ kw > Len(SEARCH_KEYWORDS)
    /\ pc' = "save"
    /\ UNCHANGED <<env, exit_status, previous_cache, scanned_repos_cache,
                   counters, lists, loop, cand, ghost, pure>>

\* ------------------------------------------------------- per-candidate steps
\* a repository the loaded cache already holds is skipped as well
AlreadyScannedOrKnown(repo_url, cache) ==
    repo_url \in cache \/ repo_url \in previous_cache.repos

\* the test is made against the repositories of the previous runs
AlreadyScannedInPreviousRuns(repo_url, cache) ==
    repo_url \in previous_cache.repos

\* the seen-set is consulted only from the second keyword on
AlreadyScannedAfterFirstKeyword(repo_url, cache) ==
    kw > 1 /\ repo_url \in cache

\* `if repo_url in scanned_repos_cache:` tested on every repository
AlreadyScannedNever(repo_url, cache) == FALSE

\* `if repo_url in scanned_repos_cache:`
AlreadyScanned(repo_url, cache) == repo_url \in cache

\* The head of the loop body: the count, the in-run dedup check, the NEW
\* tagging and the admission to the seen-set
DedupCheck ==
    /\ pc = "item" /\ idx <= Len(code_results)
    /\ LET repo_url == code_results[idx]
           is_new_repo == repo_url \notin previous_cache.repos
       IN /\ total_repos_count' = total_repos_count + 1
          /\ IF AlreadyScanned(repo_url, scanned_repos_cache)
             THEN /\ skipped_repos_count' = skipped_repos_count + 1
                  /\ idx' = idx + 1
                  /\ outcome' = Append(outcome,
                         Ended(repo_url, "SkippedDuplicateInRun", 0, "", <<>>))
                  /\ UNCHANGED <<pc, new_repos_count, scanned_repos_cache, cand>>
             ELSE /\ new_repos_count' =
                         IF is_new_repo THEN new_repos_count + 1
                         ELSE new_repos_count
                  /\ scanned_repos_cache' = scanned_repos_cache \cup {repo_url}
                  /\ cand' = [NoCand EXCEPT !.repo_url = repo_url,
                                            !.is_new_repo = is_new_repo]
                  /\ pc' = "meta"
                  /\ UNCHANGED <<skipped_repos_count, idx, outcome>>
    /\ UNCHANGED <<env, exit_status, previous_cache, matched_repos_count,
                   old_repos_count, lists, kw, code_results, calls,
                   privateSeen, everDetected, writes, saved, pure>>

\* get_repo_size, then the private check and the size check
FetchMetadata ==
    /\ pc = "meta"
    /\ \/ \E resp \in MetaInputs(cand.repo_url) :
            LET got == get_repo_size(resp)
                repo_size_kb == got[1]
                is_private == got[2]
            IN /\ calls' = Called("meta", cand.repo_url)
               /\ privateSeen' =
                      IF is_private = PyBool(TRUE)
                      THEN privateSeen \cup {cand.repo_url} ELSE privateSeen
               /\ IF SkipPrivate(is_private)
                  THEN /\ NextItem("RejectedPrivate", resp.status, "", <<>>)
                       /\ UNCHANGED public_list
                  ELSE IF SkipTooLarge(repo_size_kb, args)
                  THEN /\ public_list' = Append(public_list,
                              PublicEntry(cand.repo_url, "", <<>>, keyword,
                                          cand.is_new_repo))
                       /\ NextItem("RejectedTooLarge", resp.status, "", <<>>)
                  ELSE /\ cand' = [cand EXCEPT !.meta_status = resp.status,
                                                !.repo_size_kb = repo_size_kb,
                                                !.is_private = is_private]
                       /\ pc' = "commit"
                       /\ UNCHANGED <<public_list, idx, outcome>>
               /\ UNCHANGED exit_status
       \/ /\ Fatal                       \* requests.get raises
          /\ UNCHANGED <<public_list, idx, cand, calls, outcome, privateSeen>>
    /\ UNCHANGED <<env, previous_cache, scanned_repos_cache, counters,
                   results_list, new_repos_list, kw, code_results,
                   everDetected, writes, saved, pure>>

\* get_last_commit and get_commit_year, then the year check
FetchLastCommit ==
    /\ pc = "commit"
    /\ \/ \E resp \in CommitInputs(cand.repo_url) :
            LET got == get_last_commit(resp)
                commiter == got[1]
                last_commit_date == got[2]
                commit_year == get_commit_year(last_commit_date)
            IN /\ calls' = Called("commit", cand.repo_url)
               /\ IF SkipOld(commit_year, args)
                  THEN /\ old_repos_count' = old_repos_count + 1
                       /\ public_list' = Append(public_list,
                              PublicEntry(cand.repo_url, commiter,
                                          last_commit_date, keyword,
                                          cand.is_new_repo))
                       /\ NextItem("RejectedStale", 0, commiter, last_commit_date)
                  ELSE /\ cand' = [NoCand EXCEPT
                                       !.repo_url = cand.repo_url,
                                       !.is_new_repo = cand.is_new_repo,
                                       !.commiter = commiter,
                                       !.last_commit_date = last_commit_date]
                       /\ pc' = "clone"
                       /\ UNCHANGED <<old_repos_count, public_list, idx, outcome>>
               /\ UNCHANGED exit_status
       \/ /\ Fatal                       \* requests.get or the JSON access raises
          /\ UNCHANGED <<old_repos_count, public_list, idx, cand, calls, outcome>>
    /\ UNCHANGED <<env, previous_cache, scanned_repos_cache, total_repos_count,
                   matched_repos_count, skipped_repos_count, new_repos_count,
                   results_list, new_repos_list, kw, code_results,
                   privateSeen, everDetected, writes, saved, pure>>

\* git clone returned 0: the candidate is recorded in public_list (and in
\* new_repos_list when it is new) and handed to the detector
CloneSucceeded ==
    /\ workdirs' = workdirs \cup {cand.repo_url}
    /\ public_list' = Append(public_list,
           PublicEntry(cand.repo_url, cand.commiter,
                       cand.last_commit_date, keyword, cand.is_new_repo))
    /\ new_repos_list' =
           IF cand.is_new_repo
           THEN Append(new_repos_list,
                  [Link |-> cand.repo_url, Author |-> cand.commiter,
                   Date |-> cand.last_commit_date, Keyword |-> keyword])
           ELSE new_repos_list
    /\ pc' = "detect"
    /\ UNCHANGED <<exit_status, idx, cand, outcome>>

\* the handler logs the failure and falls through to the detector
CloneFailurePassed ==
    /\ pc' = "detect"
    /\ UNCHANGED <<workdirs, public_list, new_repos_list, exit_status, idx,
                   cand, outcome>>

\* `except subprocess.CalledProcessError:` the warning and `continue`
CloneFailed ==
    /\ NextItem("CloneFailed", 0, "", <<>>)
    /\ UNCHANGED <<workdirs, public_list, new_repos_list, exit_status>>

\* subprocess.run raises something else (git cannot be spawned): the
\* exception leaves the loop
CloneRaised ==
    /\ Fatal
    /\ UNCHANGED <<workdirs, public_list, new_repos_list, idx, cand, outcome>>

\* subprocess.run(["git", "clone", ...], check=True) and its three ends
Clone ==
    /\ pc = "clone"
    /\ calls' = Called("clone", cand.repo_url)
    /\ \/ "ok" \in CloneEnds(cand.repo_url) /\ CloneSucceeded
       \/ "failed" \in CloneEnds(cand.repo_url) /\ CloneFailed
       \/ CloneRaised
    /\ UNCHANGED <<cacheFile, runNo, args, previous_cache, scanned_repos_cache,
                   counters, results_list, kw, code_results, privateSeen,
                   everDetected, writes, saved, pure>>

\* the findings carry no committer and no commit date
FindingContextNoCommit(c, k) ==
    [keyword |-> k, repo_url |-> c.repo_url, commiter |-> "",
     last_commit_date |-> <<>>]

\* the fields every finding of the candidate carries
FindingContext(c, k) ==
    [keyword |-> k, repo_url |-> c.repo_url, commiter |-> c.commiter,
     last_commit_date |-> c.last_commit_date]

\* the output is parsed only when the detector exited with 0 (check=True)
DetectorFindingsChecked(result, ctx) ==
    IF result.returncode = 0 THEN ParseOutput(result.stdout, ctx) ELSE <<>>

\* subprocess.run(..., check=False): the exit code is not looked at,
\* result.stdout.splitlines() is parsed
DetectorFindings(result, ctx) == ParseOutput(result.stdout, ctx)

\* trufflehog and the parse of its output; an exception is caught and logged
Detect ==
    /\ pc = "detect"
    /\ calls' = Called("detect", cand.repo_url)
    /\ \E end \in DetectEnds(cand.repo_url) :
          IF end.raised
          THEN /\ cand' = [cand EXCEPT !.detect = "raised"]
               /\ UNCHANGED <<results_list, matched_repos_count>>
          ELSE LET found == DetectorFindings(end.result,
                                             FindingContext(cand, keyword))
               IN /\ results_list' = results_list \o found
                  /\ matched_repos_count' =
                         MatchedAfter(matched_repos_count, found)
                  /\ cand' = [cand EXCEPT !.detect = "success",
                                          !.result = end.result]
    /\ pc' = "cleanup"
    /\ UNCHANGED <<env, exit_status, previous_cache, scanned_repos_cache,
                   total_repos_count, skipped_repos_count, old_repos_count,
                   new_repos_count, public_list, new_repos_list, loop,
                   outcome, privateSeen, everDetected, writes, saved, pure>>

\* The working copy is removed only after a detection that did not raise
RemovedAfterSuccessOnly(dirs, c) ==
    IF c.detect = "success" THEN dirs \ {c.repo_url} ELSE dirs

\* shutil.rmtree(local_path, ignore_errors=True) after the try/except
RemoveWorkingCopy(dirs, c) == dirs \ {c.repo_url}

Cleanup ==
    /\ pc = "cleanup"
    /\ calls' = Called("rmtree", cand.repo_url)
    /\ workdirs' = RemoveWorkingCopy(workdirs, cand)
    /\ NextItem("Recorded", 0, "", <<>>)
    /\ UNCHANGED <<cacheFile, runNo, args, exit_status, previous_cache,
                   scanned_repos_cache, counters, lists, kw, code_results,
                   privateSeen, everDetected, writes, saved, pure>>

\* ------------------------------------------------------------- end of a run
\* save_results of the three lists
SaveResults ==
    /\ pc = "save"
    /\ \/ /\ pc' = "cache"
          /\ UNCHANGED exit_status
       \/ Fatal                           \* a serializer raises
    /\ UNCHANGED <<env, previous_cache, scanned_repos_cache, counters, lists,
                   loop, cand, ghost, pure>>

\* save_cache(scanned_repos_cache, previous_cache), the statistics, exit
SaveCache ==
    /\ pc = "cache"
    /\ \E writable \in BOOLEAN :
          /\ cacheFile' = save_cache(scanned_repos_cache, previous_cache,
                                     cacheFile, writable, runNo)
          /\ saved' = IF writable THEN "written" ELSE "failed"
          /\ everDetected' =
                 IF writable
                 THEN everDetected \cup {u \in Urls : calls["detect"][u] > 0}
                 ELSE everDetected
          /\ writes' = IF writable THEN writes + 1 ELSE writes
    /\ pc' = "done"
    /\ exit_status' = PyInt(0)
    /\ UNCHANGED <<workdirs, runNo, args, previous_cache, scanned_repos_cache,
                   counters, lists, loop, cand, calls, outcome, privateSeen,
                   pure>>

\* unique_repos_scanned = len(scanned_repos_cache), the statistic printed
\* as "Unique repositories scanned" once the cache has been saved
unique_repos_scanned == Cardinality(scanned_repos_cache)

\* `except KeyboardInterrupt`: the warning, the optional mail, exit(1)
Interrupt ==
    /\ pc \in Running
    /\ pc' = "interrupted"
    /\ exit_status' = PyInt(1)
    /\ UNCHANGED <<env, previous_cache, scanned_repos_cache, counters, lists,
                   loop, cand, ghost, pure>>

\* The script is started again: arguments parsed, TEMP_DIR removed and
\* recreated, the pipeline's variables unset
Launch ==
    /\ pc \in Exited /\ runNo < MaxRuns
    /\ runNo' = runNo + 1
    /\ args' \in ArgsInputs
    /\ workdirs' = {}
    /\ pc' = "start"
    /\ exit_status' = PyNone
    /\ previous_cache' = EmptyCache
    /\ scanned_repos_cache' = {}
    /\ total_repos_count' = 0 /\ matched_repos_count' = 0
    /\ skipped_repos_count' = 0 /\ old_repos_count' = 0 /\ new_repos_count' = 0
    /\ results_list' = <<>> /\ public_list' = <<>> /\ new_repos_list' = <<>>
    /\ kw' = 1 /\ code_results' = <<>> /\ idx' = 1
    /\ cand' = NoCand
    /\ calls' = NoCalls /\ outcome' = <<>> /\ privateSeen' = {} /\ saved' = "no"
    /\ UNCHANGED <<cacheFile, everDetected, writes, pure>>

Next ==
    \/ LoadCache
    \/ SearchIssues
    \/ RecordIssue
    \/ EndOfResults
    \/ SearchCode
    \/ EndOfKeywords
    \/ DedupCheck
    \/ FetchMetadata
    \/ FetchLastCommit
    \/ Clone
    \/ Detect
    \/ Cleanup
    \/ SaveResults
    \/ SaveCache
    \/ Interrupt
    \/ Launch

Spec == Init /\ [][Next]_vars

\* ------------------------------------------------- the admission function
\* The admission cascade applied to one candidate's metadata, commit date
\* and configuration, drawn from bounded sets.
DateAlphabet == {"0", "2", "4", "-", "U", " "}

AdmissionInputs ==
    [is_private : {PyNone, PyBool(FALSE), PyBool(TRUE)},
     repo_size_kb : {PyNone, PyInt(0), PyInt(10), PyInt(DefaultMaxSize * 1024),
                     PyInt(DefaultMaxSize * 1024 + 1)},
     last_commit_date : SeqsUpTo(DateAlphabet, MaxDateLen)
                           \cup {DateUnknown, Date2023, Date2025},
     args : [issues : {FALSE}, max_size : {-1, DefaultMaxSize},
             min_year : {DefaultMinYear}]]

InitAdmission ==
    /\ cacheFile = NoFile
    /\ workdirs = {}
    /\ runNo = 1
    /\ args = [issues |-> FALSE, max_size |-> DefaultMaxSize,
               min_year |-> DefaultMinYear]
    /\ RunLocalsInit
    /\ everDetected = {}
    /\ writes = 0
    /\ fin \in AdmissionInputs
    /\ fout = [kind |-> "none"]

ApplyAdmission ==
    /\ fout.kind = "none"
    /\ fout' = [kind |-> "verdict",
                commit_year |-> get_commit_year(fin.last_commit_date),
                verdict |-> AdmissionVerdict(fin.is_private, fin.repo_size_kb,
                                             fin.last_commit_date, fin.args)]
    /\ UNCHANGED <<env, pc, exit_status, previous_cache, scanned_repos_cache,
                   counters, lists, loop, cand, ghost, fin>>

NextAdmission == ApplyAdmission

SpecAdmission == InitAdmission /\ [][NextAdmission]_vars

\* --------------------------------------------------------- the finding parser
\* The parser applied to one detector output: up to MaxLines lines, each a
\* field line, a raw-result line, or a raw-result line with nothing after
\* the label.
LDet2 == <<"Detector Type:", "Github">>
LRawEmpty == <<"Raw result:">>

ParserLines == {LDet, LDet2, LPath, LLine, LRaw1, LRaw2, LRawEmpty}

ParserCtx == [keyword |-> "password", repo_url |-> "r1", commiter |-> "alice",
              last_commit_date |-> Date2025]

InitParser ==
    /\ cacheFile = NoFile
    /\ workdirs = {}
    /\ runNo = 1
    /\ args = [issues |-> FALSE, max_size |-> DefaultMaxSize,
               min_year |-> DefaultMinYear]
    /\ RunLocalsInit
    /\ everDetected = {}
    /\ writes = 0
    /\ fin \in [output : SeqsUpTo(ParserLines, MaxLines)]
    /\ fout = [kind |-> "none"]

ApplyParser ==
    /\ fout.kind = "none"
    /\ fout' = [kind |-> "findings", found |-> ParseOutput(fin.output, ParserCtx)]
    /\ UNCHANGED <<env, pc, exit_status, previous_cache, scanned_repos_cache,
                   counters, lists, loop, cand, ghost, fin>>

NextParser == ApplyParser

SpecParser == InitParser /\ [][NextParser]_vars

\* -------------------------------------------------------- the paginated search
\* One keyword's search against a remote that holds up to MaxItems items and
\* may answer one page with a non-200 status.
SearchInputs ==
    [items : SeqsUpTo(Urls, MaxItems),
     failPage : 0..((MaxItems \div per_page) + 1)]

InitSearch ==
    /\ cacheFile = NoFile
    /\ workdirs = {}
    /\ runNo = 1
    /\ args = [issues |-> FALSE, max_size |-> DefaultMaxSize,
               min_year |-> DefaultMinYear]
    /\ RunLocalsInit
    /\ everDetected = {}
    /\ writes = 0
    /\ fin \in SearchInputs
    /\ fout = [kind |-> "none"]

ApplySearch ==
    /\ fout.kind = "none"
    /\ fout' = [kind |-> "searched",
                got |-> SearchLoop(fin.items, fin.failPage, 1, SearchStart),
                returned |-> search_github_code_all_pages(fin)]
    /\ UNCHANGED <<env, pc, exit_status, previous_cache, scanned_repos_cache,
                   counters, lists, loop, cand, ghost, fin>>

NextSearch == ApplySearch

SpecSearch == InitSearch /\ [][NextSearch]_vars

\* ------------------------------------------------------- runs of one script
\* Every invocation is given the same command line, search results,
\* metadata, commits and tool outcomes (the script, fixed at the start);
\* what differs between the
\* invocations is the CACHE_FILE they find: none or an earlier one at the
\* start, then whatever the invocation before left.
RepoPrivate ==
    [meta |-> [status |-> 200, size |-> PyInt(10), private |-> PyBool(TRUE)],
     commit |-> [status |-> 200, empty |-> FALSE, name |-> "alice",
                 login |-> "", date |-> Date2025],
     clone |-> "ok",
     detect |-> [raised |-> FALSE,
                 result |-> [returncode |-> 0, stdout |-> OutEmpty]]]

RepoStale ==
    [RepoPrivate EXCEPT
        !.meta = [status |-> 200, size |-> PyInt(10), private |-> PyBool(FALSE)],
        !.commit = [status |-> 200, empty |-> FALSE, name |-> "GitHub",
                    login |-> "bob", date |-> Date2023]]

RepoCloneFails ==
    [RepoPrivate EXCEPT
        !.meta = [status |-> 200, size |-> PyInt(10), private |-> PyBool(FALSE)],
        !.clone = "failed"]

RepoWithFinding ==
    [RepoPrivate EXCEPT
        !.meta = [status |-> 404],
        !.detect = [raised |-> FALSE,
                    result |-> [returncode |-> 1, stdout |-> OutBlock]]]

RepoScripts == {RepoPrivate, RepoStale, RepoCloneFails, RepoWithFinding}

ScriptedHits ==
    {h \in [DOMAIN SEARCH_KEYWORDS -> SeqsUpTo(Urls, MaxHits)] :
        Len(h[1]) + Len(h[2]) <= MaxHits}

Scripts ==
    {[kind |-> "script",
      code |-> [k \in DOMAIN SEARCH_KEYWORDS |->
                   [items |-> h[k], failPage |-> 0]],
      issues |-> [k \in DOMAIN SEARCH_KEYWORDS |->
                     [items |-> IF k = 1 THEN <<"i1">> ELSE <<>>,
                      failPage |-> 0]],
      repo |-> r] : h \in ScriptedHits, r \in [Urls -> RepoScripts]}

InitReplay ==
    /\ cacheFile \in {NoFile, JsonFile({"r1"}, PyInt(0), 1)}
    /\ workdirs = {}
    /\ runNo = 1
    /\ args \in ArgsMain
    /\ RunLocalsInit
    /\ everDetected = {}
    /\ writes = 0
    /\ fin \in Scripts
    /\ fout = [kind |-> "none"]

SpecReplay == InitReplay /\ [][Next]_vars

\* ------------------------------------------------------------------ claims
EntriesOf(u) == {j \in DOMAIN public_list : public_list[j].Link = u}

\* C1: in one invocation no repository URL enters the metadata / clone /
\* detect stage more than once, however many hits carry it.
C1_AtMostOncePerRun ==
    \A u \in Urls :
        /\ calls["meta"][u] <= 1
        /\ calls["clone"][u] <= 1
        /\ calls["detect"][u] <= 1

\* a repository was scanned and a later hit of the second keyword carried it again
C1_Witness ==
    \E i, j \in DOMAIN outcome :
        /\ i < j
        /\ outcome[i].url = outcome[j].url
        /\ outcome[i].state = "Recorded"
        /\ outcome[j].state = "SkippedDuplicateInRun"
        /\ kw = 2
        /\ calls["detect"][outcome[i].url] = 1

\* C2: the identifier set save_cache persists at the end of a run is the
\* loaded set united with the identifiers seen in the run.
C2_SavedIsUnion ==
    (pc = "done" /\ saved = "written") =>
        cacheFile.repos = previous_cache.repos \cup scanned_repos_cache

\* C3: after completed runs the persisted cache holds every repository
\* handed to the detector in any of them.
C3_CacheHoldsEveryScanned ==
    (pc = "done" /\ saved = "written") => everDetected \subseteq cacheFile.repos

\* C4: a repository whose metadata reports private is neither cloned nor
\* handed to the detector in that run.
C4_PrivateNeverCloned ==
    \A u \in privateSeen : calls["clone"][u] = 0 /\ calls["detect"][u] = 0

\* a run completed in which a private repository was rejected
C4_Witness ==
    /\ pc = "done"
    /\ \E i \in DOMAIN outcome :
          outcome[i].state = "RejectedPrivate" /\ outcome[i].url \in privateSeen

\* C5 as stated: every rejected candidate, on each of the three rejection
\* paths, has an audit record in public_list.
C5_EveryRejectionRecorded ==
    \A i \in DOMAIN outcome :
        outcome[i].state \in {"RejectedPrivate", "RejectedTooLarge", "RejectedStale"}
            => EntriesOf(outcome[i].url) # {}

\* C5 amended: a candidate rejected as too large has exactly one record in
\* public_list, with empty author and date; one rejected as stale has
\* exactly one, with the author and date fetched; one rejected as private
\* has none.
C5_RejectionAudit ==
    \A i \in DOMAIN outcome :
        LET o == outcome[i]
        IN /\ o.state = "RejectedPrivate" => EntriesOf(o.url) = {}
           /\ o.state = "RejectedTooLarge" =>
                 /\ Cardinality(EntriesOf(o.url)) = 1
                 /\ \A j \in EntriesOf(o.url) :
                       public_list[j].Author = "" /\ public_list[j].Date = <<>>
           /\ o.state = "RejectedStale" =>
                 /\ Cardinality(EntriesOf(o.url)) = 1
                 /\ \A j \in EntriesOf(o.url) :
                       /\ public_list[j].Author = o.author
                       /\ public_list[j].Date = o.date

\* one run rejected a private candidate and a stale one
C5_Witness ==
    /\ \E i \in DOMAIN outcome : outcome[i].state = "RejectedPrivate"
    /\ \E i \in DOMAIN outcome :
          outcome[i].state = "RejectedStale" /\ outcome[i].date = Date2023

\* The verdict as the specification orders it, "known" meaning not None
SpecifiedVerdict ==
    IF fin.is_private = PyBool(TRUE) THEN "RejectPrivate"
    ELSE IF fin.repo_size_kb.t = "int"
            /\ fin.repo_size_kb.i > fin.args.max_size * 1024
         THEN "RejectTooLarge"
    ELSE IF fout.commit_year.t = "int"
            /\ fout.commit_year.i < fin.args.min_year
         THEN "RejectStale"
    ELSE "Admit"

\* C6: the admission verdict is private, then known size above the
\* ceiling, then known commit year below the floor, else admit, for every
\* known integer size and year.
C6_VerdictAsSpecified ==
    fout.kind = "verdict" => fout.verdict = SpecifiedVerdict

\* C7: when the metadata lookup answers with a non-success status the
\* candidate is rejected neither as private nor as too large: size and
\* visibility are None and it goes on to the commit-history lookup.
C7_FailOpen ==
    [][(pc = "meta" /\ pc' \in {"item", "commit"}) =>
          LET status == IF pc' = "commit" THEN cand'.meta_status
                        ELSE outcome'[Len(outcome')].meta_status
          IN status # 200 =>
                /\ pc' = "commit"
                /\ cand'.repo_size_kb = PyNone
                /\ cand'.is_private = PyNone]_vars

\* a candidate whose metadata lookup failed stands before the recency check
C7_Witness == pc = "commit" /\ cand.meta_status = 404

\* The date starts with optional blanks, at least one digit and optional
\* blanks, up to its first "-" or its end
HasLeadingYear(d) ==
    \E a, b \in 1..Len(d) :
        /\ a <= b
        /\ \A i \in 1..(a - 1) : d[i] \in Whitespace
        /\ \A i \in a..b : d[i] \in Digits
        /\ \E e \in b..Len(d) :
              /\ \A i \in (b + 1)..e : d[i] \in Whitespace
              /\ e = Len(d) \/ d[e + 1] = "-"

\* C8: a commit date without a parseable leading year yields no year and
\* the candidate is not rejected as stale.
C8_NoYearIsNotStale ==
    (fout.kind = "verdict" /\ ~HasLeadingYear(fin.last_commit_date)) =>
        /\ fout.commit_year = PyNone
        /\ fout.verdict # "RejectStale"

\* the "Unknown" date of a failed commit lookup, on a public repository, is admitted
C8_Witness ==
    /\ fout.kind = "verdict"
    /\ fin.last_commit_date = DateUnknown
    /\ fin.is_private = PyBool(FALSE)
    /\ fout.commit_year = PyNone
    /\ fout.verdict = "Admit"

C10_InterruptCleansAndSaves ==
    pc = "interrupted" =>
        /\ workdirs = {}
        /\ scanned_repos_cache # {} => saved # "no"
        /\ exit_status = PyInt(1)

\* C11: a candidate whose checkout fails, for whatever reason, is abandoned
\* for this run: git clone is run at most once for it, the detector runs only
\* on a candidate that has a working copy, and a candidate that ended as
\* CloneFailed, or whose checkout raised, has no detector invocation.
C11_FailedCheckoutAbandoned ==
    /\ \A u \in Urls : calls["clone"][u] <= 1
    /\ pc = "detect" => cand.repo_url \in workdirs
    /\ \A j \in DOMAIN outcome :
          outcome[j].state = "CloneFailed" =>
              /\ calls["clone"][outcome[j].url] = 1
              /\ calls["detect"][outcome[j].url] = 0
              /\ outcome[j].url \notin workdirs
    /\ (pc = "fatal" /\ cand.repo_url # "") =>
          calls["detect"][cand.repo_url] = 0

\* a run that went on to its end after a failed checkout
C11_Witness ==
    /\ pc = "done"
    /\ \E j \in DOMAIN outcome : outcome[j].state = "CloneFailed"
    /\ \E j \in DOMAIN outcome : outcome[j].state = "Recorded"

\* C12: a failure of a per-candidate step (metadata lookup, commit-history
\* lookup, checkout, detector invocation) never terminates the run: the
\* fatal handler is reached only while no candidate is being processed.
C12_StepFailureNeverEndsRun ==
    pc = "fatal" => cand = NoCand

\* C13: detector failures are non-fatal. A step taken while the detector is
\* due either is the user's interrupt or ends at the cleanup; when spawning
\* the detector raised, no finding and no match is added; when the detector
\* returned, with whatever exit code, the findings parsed from its captured
\* standard output are appended; and from the cleanup the run goes on to the
\* next candidate.
C13_DetectorFailureNonFatal ==
    [][/\ pc = "detect" =>
            /\ pc' \in {"cleanup", "interrupted"}
            /\ (pc' = "cleanup" /\ cand'.detect = "raised") =>
                  /\ results_list' = results_list
                  /\ matched_repos_count' = matched_repos_count
            /\ (pc' = "cleanup" /\ cand'.detect = "success") =>
                  results_list' = results_list \o
                      ParseOutput(cand'.result.stdout,
                                  FindingContext(cand, keyword))
       /\ pc = "cleanup" => pc' \in {"item", "interrupted"}]_vars

\* a detector that exited with a non-zero code and whose output gave findings
C13_Witness ==
    /\ pc = "cleanup"
    /\ cand.detect = "success"
    /\ cand.result.returncode = 1
    /\ cand.result.stdout = OutBlock
    /\ Len(results_list) = 1
    /\ results_list[1].Link = cand.repo_url

\* the text after the label of a line that starts with the label
IsLine(label, line) == line # <<>> /\ Head(line) = label
IsRawLine(line) == IsLine("Raw result:", line)
IsFindingLine(line) == IsRawLine(line) /\ Tail(line) # <<>>

\* the value of the last `label` line among the first n lines, empty if none
LastValue(label, output, n) ==
    LET at == {i \in 1..n : IsLine(label, output[i])}
    IN IF at = {} THEN <<>>
       ELSE Tail(output[CHOOSE i \in at : \A j \in at : j <= i])

\* the position of the k-th line of the output that gives a finding
KthFindingLine(output, k) ==
    CHOOSE n \in 1..Len(output) :
        /\ IsFindingLine(output[n])
        /\ Cardinality({m \in 1..n : IsFindingLine(output[m])}) = k

\* C14: every finding carries the most recently parsed detector, file and
\* line number at its raw-result line (empty when none was parsed yet), so
\* a raw-result line that follows another one reuses the same values; the
\* output Detector Type AWS, Path a.py, Line Number 10, Raw result KEY1, Raw
\* result KEY2 gives two findings, both AWS / a.py / 10, with KEY1 then KEY2.
C14_FieldsPersist ==
    fout.kind = "findings" =>
        /\ \A k \in 1..Len(fout.found) :
              k <= Len(SelectSeq(fin.output, IsFindingLine)) =>
                LET n == KthFindingLine(fin.output, k)
                IN /\ fout.found[k].Detector =
                          LastValue("Detector Type:", fin.output, n)
                   /\ fout.found[k].File = LastValue("Path:", fin.output, n)
                   /\ fout.found[k].Line =
                          LastValue("Line Number:", fin.output, n)
        /\ fin.output = <<LDet, LPath, LLine, LRaw1, LRaw2>> =>
              /\ Len(fout.found) = 2
              /\ \A k \in 1..2 :
                    /\ fout.found[k].Detector = <<"AWS">>
                    /\ fout.found[k].File = <<"a.py">>
                    /\ fout.found[k].Line = <<"10">>
              /\ fout.found[1].Raw = <<"KEY1">>
              /\ fout.found[2].Raw = <<"KEY2">>

\* the example output has been parsed
C14_Witness ==
    /\ fout.kind = "findings"
    /\ fin.output = <<LDet, LPath, LLine, LRaw1, LRaw2>>
    /\ Len(fout.found) = 2

\* the raw results of the findings, in order
RawsFound == [k \in 1..Len(fout.found) |-> fout.found[k].Raw]
ValuesOf(lines) == [k \in 1..Len(lines) |-> Tail(lines[k])]

\* C15: each raw-result line emits exactly one finding: the findings of an
\* output are as many as its raw-result lines and carry their values in the
\* same order.
C15_OneFindingPerRawLine ==
    fout.kind = "findings" =>
        RawsFound = ValuesOf(SelectSeq(fin.output, IsRawLine))

\* C15: each raw-result line whose value is not empty emits exactly one
\* finding, in order; a raw-result line with an empty value emits none.
C15_OneFindingPerNonEmptyRawLine ==
    fout.kind = "findings" =>
        RawsFound = ValuesOf(SelectSeq(fin.output, IsFindingLine))

\* an output with an empty raw-result line between two that have a value
C15_Witness ==
    /\ fout.kind = "findings"
    /\ fin.output = <<LDet, LRaw1, LRawEmpty, LRaw2>>
    /\ Len(fout.found) = 2

\* page p of the remote is answered with status 200
PageOk(p) == p # fin.failPage
\* the items of pages 1..m of the remote, concatenated
RECURSIVE PagesConcat(_)
PagesConcat(m) ==
    IF m = 0 THEN <<>> ELSE PagesConcat(m - 1) \o PageItems(fin.items, m)

\* C16: the search asks for pages 1, 2, ... in order, each once; the last
\* page asked is the first that fails or has fewer items than the page size;
\* what is returned is the concatenation of the items of the pages fetched
\* with success, those before a failing page included; and the search of a
\* remote with finitely many items ends (its result exists).
C16_PaginatedSearch ==
    fout.kind = "searched" =>
        LET n == Len(fout.got.requests)
            fetched == IF PageOk(n) THEN n ELSE n - 1
        IN /\ n >= 1
           /\ \A p \in 1..n : fout.got.requests[p] = p
           /\ \A p \in 1..(n - 1) :
                 PageOk(p) /\ Len(PageItems(fin.items, p)) = per_page
           /\ ~PageOk(n) \/ Len(PageItems(fin.items, n)) < per_page
           /\ fout.returned = PagesConcat(fetched)
           /\ fout.returned = fout.got.results

\* a search that failed on a later page and kept the pages before it
C16_Witness ==
    /\ fout.kind = "searched"
    /\ fin.failPage = 3
    /\ Len(fout.got.requests) = 3
    /\ Len(fout.returned) = 2 * per_page

TerminalStates == {"Recorded", "RejectedPrivate", "RejectedTooLarge",
                   "RejectedStale", "SkippedDuplicateInRun", "CloneFailed"}

\* C17: every code-search hit processed ends in exactly one terminal state:
\* once the run is over, other than by the user's interrupt, the hits taken
\* from the search results are as many as the terminal states logged, one
\* per hit, each of them one of the six.
C17_ExactlyOneTerminalState ==
    /\ \A j \in DOMAIN outcome : outcome[j].state \in TerminalStates
    /\ pc \in {"done", "fatal"} => Len(outcome) = total_repos_count

\* C19: load_cache never raises, and when CACHE_FILE does not exist, or
\* cannot be read or parsed, it returns the empty state: a step from the
\* start of a run is the user's interrupt or the load, which goes on to the
\* keywords with an empty identifier set, no last-run timestamp and run
\* counter 0 when the file is missing or corrupt.
C19_LoadCacheNeverRaises ==
    [][pc = "start" =>
          \/ pc' = "interrupted"
          \/ /\ pc' = "keyword"
             /\ cacheFile.kind \in {"none", "corrupt"} =>
                   previous_cache' =
                       [repos |-> {}, last_scan |-> PyNone, scan_count |-> 0]
             /\ cacheFile.kind = "json" =>
                   /\ previous_cache'.repos = cacheFile.repos
                   /\ previous_cache'.scan_count = cacheFile.scan_count]_vars

\* a run that loaded a corrupt CACHE_FILE and went on to the first keyword
C19_Witness ==
    /\ pc = "keyword" /\ kw = 1
    /\ cacheFile = Corrupt
    /\ previous_cache.repos = {} /\ previous_cache.scan_count = 0

\* the run counter held by CACHE_FILE, 0 when there is none to read
PersistedCount(file) == IF file.kind = "json" THEN file.scan_count ELSE 0

\* C20: the persisted run counter goes up by exactly 1 with every completed
\* run that saves the cache, and never goes down: started without a cache
\* file, it equals the number of runs that have saved so far, and a step
\* either leaves it alone or is a save that adds 1 to it.
C20_CounterCountsSavedRuns ==
    /\ PersistedCount(cacheFile) = writes
    /\ writes <= runNo
    /\ (pc = "done" /\ saved = "written") =>
          /\ cacheFile.kind = "json"
          /\ cacheFile.scan_count = previous_cache.scan_count + 1

\* two runs in a row have completed and saved
C20_Witness ==
    /\ runNo = 2 /\ pc = "done" /\ saved = "written"
    /\ writes = 2
    /\ cacheFile.scan_count = 2

\* what a run of the script does, computed from the script alone: the
\* calls of git and of the detector per repository, the findings, and the
\* entries of public_list without their NEW / Existing tag
Untagged(e) ==
    [Link |-> e.Link, Author |-> e.Author, Date |-> e.Date,
     Keyword |-> e.Keyword]

ScriptedHitList ==
    LET first == search_github_code_all_pages(fin.code[1])
        second == search_github_code_all_pages(fin.code[2])
    IN [j \in 1..Len(first) |-> <<1, first[j]>>]
       \o [j \in 1..Len(second) |-> <<2, second[j]>>]

ExpectedStart ==
    [seen |-> {}, clone |-> [u \in Urls |-> 0], detect |-> [u \in Urls |-> 0],
     findings |-> <<>>, publics |-> <<>>]

ExpectedHit(st, k, u, a) ==
    LET size == get_repo_size(fin.repo[u].meta)
        last == get_last_commit(fin.repo[u].commit)
        verdict == AdmissionVerdict(size[2], size[1], last[2], a)
        entry(author, date) ==
            [Link |-> u, Author |-> author, Date |-> date,
             Keyword |-> SEARCH_KEYWORDS[k]]
        ctx == [keyword |-> SEARCH_KEYWORDS[k], repo_url |-> u,
                commiter |-> last[1], last_commit_date |-> last[2]]
        seen == [st EXCEPT !.seen = @ \cup {u}]
    IN IF u \in st.seen THEN st
       ELSE IF verdict = "RejectPrivate" THEN seen
       ELSE IF verdict = "RejectTooLarge"
            THEN [seen EXCEPT !.publics = Append(@, entry("", <<>>))]
       ELSE IF verdict = "RejectStale"
            THEN [seen EXCEPT !.publics = Append(@, entry(last[1], last[2]))]
       ELSE IF fin.repo[u].clone # "ok"
            THEN [seen EXCEPT !.clone[u] = @ + 1]
       ELSE [seen EXCEPT
                !.clone[u] = @ + 1,
                !.detect[u] = @ + 1,
                !.publics = Append(@, entry(last[1], last[2])),
                !.findings =
                    IF fin.repo[u].detect.raised THEN @
                    ELSE @ \o ParseOutput(fin.repo[u].detect.result.stdout, ctx)]

RECURSIVE ExpectedFrom(_, _, _)
ExpectedFrom(st, hits, a) ==
    IF hits = <<>> THEN st
    ELSE ExpectedFrom(ExpectedHit(st, Head(hits)[1], Head(hits)[2], a),
                      Tail(hits), a)

Expected == ExpectedFrom(ExpectedStart, ScriptedHitList, args)

IsPrefix(s, t) == Len(s) <= Len(t) /\ s = SubSeq(t, 1, Len(s))

\* C18: the persisted cache never influences what is scanned. In every run
\* of a script, whatever CACHE_FILE held when the run began, the
\* repositories cloned and handed to the detector, the findings, and the
\* entries of the public list apart from their NEW / Existing tag are
\* those computed from the script alone: all of them once the loops are
\* done, and a part of them before.
C18_CacheNeverInfluencesScan ==
    (Scripted /\ ~args.issues) =>
        LET e == Expected
        IN /\ \A u \in Urls :
                 /\ calls["clone"][u] <= e.clone[u]
                 /\ calls["detect"][u] <= e.detect[u]
           /\ IsPrefix(results_list, e.findings)
           /\ IsPrefix([j \in DOMAIN public_list |-> Untagged(public_list[j])],
                       e.publics)
           /\ pc \in {"save", "cache", "done"} =>
                 /\ calls["clone"] = e.clone
                 /\ calls["detect"] = e.detect
                 /\ results_list = e.findings
                 /\ Len(public_list) = Len(e.publics)

\* the second run of a script scanned again, with a finding, a repository
\* that the cache it loaded already held
C18_Witness ==
    /\ Scripted /\ ~args.issues
    /\ runNo = 2 /\ pc = "done"
    /\ \E u \in previous_cache.repos :
          /\ calls["clone"][u] = 1
          /\ calls["detect"][u] = 1
          /\ \E j \in DOMAIN results_list : results_list[j].Link = u
          /\ \E j \in DOMAIN public_list :
                public_list[j].Link = u /\ public_list[j].Status = "Existing"

\* C21: the statistic reported as unique repositories scanned equals the
\* number of distinct repositories that reached the detector in the run.
C21_UniqueScannedCountsDetected ==
    (pc = "done" /\ ~args.issues) =>
        unique_repos_scanned =
            Cardinality({u \in Urls : calls["detect"][u] > 0})

\* C22: a hit whose URL is already in the in-run seen-set is handled before
\* any remote lookup: the step that takes it (unless it is the user's
\* interrupt) calls no collaborator, leaves the seen-set, the candidates
\* list, the findings list, the new-repository list and count and the
\* other counters as they were, adds one to the total and one to the
\* skipped-duplicates counter, and moves on to the next hit.
C22_DuplicateHitFrame ==
    [][(/\ pc = "item" /\ idx <= Len(code_results)
        /\ code_results[idx] \in scanned_repos_cache
        /\ pc' # "interrupted") =>
          /\ total_repos_count' = total_repos_count + 1
          /\ skipped_repos_count' = skipped_repos_count + 1
          /\ calls' = calls
          /\ UNCHANGED <<scanned_repos_cache, public_list, results_list,
                         new_repos_list, new_repos_count, old_repos_count,
                         matched_repos_count, workdirs, cacheFile>>
          /\ pc' = "item" /\ idx' = idx + 1]_vars

\* a duplicate hit has just been skipped; its repository was looked up once
C22_Witness ==
    /\ pc = "item"
    /\ skipped_repos_count = 1
    /\ total_repos_count = 2
    /\ Len(outcome) = 2
    /\ outcome[2].state = "SkippedDuplicateInRun"
    /\ calls["meta"][outcome[2].url] = 1
    /\ scanned_repos_cache = {outcome[2].url}

\* C23: a public candidate of known size is rejected as too large exactly
\* when its size in KB is strictly above the ceiling, max size in MB times
\* 1024: a size equal to the ceiling is not rejected, any known size above
\* it is.
C23_TooLargeAboveCeiling ==
    (/\ fout.kind = "verdict"
     /\ fin.is_private # PyBool(TRUE)
     /\ fin.repo_size_kb.t = "int") =>
        (fout.verdict = "RejectTooLarge"
            <=> fin.repo_size_kb.i > fin.args.max_size * 1024)

\* the repositories cloned with success in this run
ClonedOk ==
    {outcome[j].url : j \in {i \in DOMAIN outcome : outcome[i].state = "Recorded"}}
    \cup workdirs

FindingsOf(u) ==
    LET Of(f) == f.Link = u IN SelectSeq(results_list, Of)

\* C24: every candidate admitted and cloned with success has exactly one
\* entry in the candidates list; every finding of the run carries the URL
\* of such a candidate and the keyword, committer and commit date of its
\* entry; and once the detector has returned, the findings of the candidate
\* are those parsed from its output with the candidate's URL, the keyword of
\* the hit and the committer and date fetched for it: exactly one for an
\* output of one complete block.
C24_AdmittedCandidateRecorded ==
    ~args.issues =>
        /\ \A u \in ClonedOk : Cardinality(EntriesOf(u)) = 1
        /\ \A j \in DOMAIN results_list :
              /\ results_list[j].Link \in ClonedOk
              /\ \E e \in EntriesOf(results_list[j].Link) :
                    /\ public_list[e].Keyword = results_list[j].Keyword
                    /\ public_list[e].Author = results_list[j].Commiter
                    /\ public_list[e].Date = results_list[j].Date
        /\ (pc = "cleanup" /\ cand.detect = "success") =>
              /\ FindingsOf(cand.repo_url) =
                     ParseOutput(cand.result.stdout,
                         [keyword |-> keyword, repo_url |-> cand.repo_url,
                          commiter |-> cand.commiter,
                          last_commit_date |-> cand.last_commit_date])
              /\ cand.result.stdout = OutBlock =>
                    /\ Len(FindingsOf(cand.repo_url)) = 1
                    /\ FindingsOf(cand.repo_url)[1].Detector = <<"AWS">>
                    /\ FindingsOf(cand.repo_url)[1].File = <<"a.py">>
                    /\ FindingsOf(cand.repo_url)[1].Line = <<"10">>
                    /\ FindingsOf(cand.repo_url)[1].Raw = <<"KEY1">>

\* keyword "password", one hit, committer alice in 2025, one complete block:
\* one finding and one candidates entry
C24_Witness ==
    /\ pc = "cleanup" /\ cand.detect = "success"
    /\ kw = 1 /\ total_repos_count = 1
    /\ cand.result.stdout = OutBlock
    /\ cand.commiter = "alice" /\ cand.last_commit_date = Date2025
    /\ Len(results_list) = 1 /\ Len(public_list) = 1
    /\ results_list[1].Commiter = "alice"
    /\ results_list[1].Keyword = "password"

\* C25: the cache loaded at the start of a run is not changed while the run
\* lasts, and a candidate is tagged NEW exactly when its URL is not in the
\* loaded identifier set, whatever was seen earlier in the same run: after
\* every step, each entry of the candidates list is NEW if and only if its
\* URL is outside the loaded set, the new-repository list holds the cloned
\* candidates outside it, and so does the flag of the candidate in hand.
C25_NewTagFromLoadedCache ==
    [][/\ pc \in (Running \ {"start"}) => previous_cache' = previous_cache
       /\ \A j \in DOMAIN public_list' :
             public_list'[j].Status = "NEW"
                <=> public_list'[j].Link \notin previous_cache'.repos
       /\ \A j \in DOMAIN new_repos_list' :
             new_repos_list'[j].Link \notin previous_cache'.repos
       /\ cand'.repo_url # "" =>
             (cand'.is_new_repo
                 <=> cand'.repo_url \notin previous_cache'.repos)]_vars

\* a run that loaded a cache holding one of its two candidates: one entry
\* tagged Existing, then one tagged NEW
C25_Witness ==
    /\ previous_cache.repos # {}
    /\ Len(public_list) = 2
    /\ public_list[1].Status = "Existing"
    /\ public_list[1].Link \in previous_cache.repos
    /\ public_list[2].Status = "NEW"
    /\ public_list[1].Link \in scanned_repos_cache

StatisticsGrow ==
    /\ total_repos_count' >= total_repos_count
    /\ skipped_repos_count' >= skipped_repos_count
    /\ old_repos_count' >= old_repos_count
    /\ new_repos_count' >= new_repos_count
    /\ matched_repos_count' >= matched_repos_count
    /\ scanned_repos_cache \subseteq scanned_repos_cache'
    /\ ~args'.issues =>
          total_repos_count' =
              skipped_repos_count' + Cardinality(scanned_repos_cache')

\* C26: run statistics only grow. A step of a run lowers none of the five
\* counters and removes nothing from the in-run seen-set, and in code-search
\* mode it leaves total candidates seen = skipped duplicates + size of the
\* seen-set.
C26_StatisticsOnlyGrow ==
    [][(pc \in Running) => StatisticsGrow]_vars

\* a run that counted a stale candidate and then a duplicate of it
C26_Witness ==
    /\ pc = "item"
    /\ total_repos_count = 2
    /\ skipped_repos_count = 1
    /\ old_repos_count = 1
    /\ new_repos_count = 1
    /\ Cardinality(scanned_repos_cache) = 1

ValuesIn(label, output) ==
    {<<>>} \cup {Tail(output[i]) :
                    i \in {n \in DOMAIN output : IsLine(label, output[n])}}

\* C28: the parser's detector, file and line fields are empty at the start
\* of each repository's detector output: once a repository's output is
\* parsed, every finding of the repository carries, in each of the three
\* fields, a value of that output or the empty value, never one parsed
\* from the output of another repository.
C28_FieldsResetPerRepository ==
    (pc = "cleanup" /\ cand.detect = "success") =>
        \A j \in DOMAIN results_list :
            results_list[j].Link = cand.repo_url =>
                /\ results_list[j].Detector
                      \in ValuesIn("Detector Type:", cand.result.stdout)
                /\ results_list[j].File \in ValuesIn("Path:", cand.result.stdout)
                /\ results_list[j].Line
                      \in ValuesIn("Line Number:", cand.result.stdout)

\* after a repository with a complete block, a repository whose output has
\* a raw-result line only: its finding has no detector, file or line
C28_Witness ==
    /\ pc = "cleanup" /\ cand.detect = "success"
    /\ cand.result.stdout = OutRawOnly
    /\ Len(results_list) = 2
    /\ results_list[1].Link # cand.repo_url
    /\ results_list[1].Detector = <<"AWS">>
    /\ results_list[2].Link = cand.repo_url
    /\ results_list[2].Detector = <<>>
    /\ results_list[2].File = <<>>
    /\ results_list[2].Line = <<>>

============================================================================
